---- MODULE Spec2Model ----
(***************************************************************************)
(* displayhatmini_lite: the backlight controller of DisplayHATMini, its    *)
(* KernelPWM sysfs channel, and the teardown paths (_cleanup, atexit,      *)
(* __del__).                                                               *)
(*                                                                         *)
(* Brightness values are Python floats v = n/100; the model carries the    *)
(* integer n ("hundredths").  The float product value * 100 is carried as  *)
(* a record [p, e]: the nearest integer p and the sign e of the rounding   *)
(* error of the double-precision product against p.                       *)
(***************************************************************************)
EXTENDS Integers, Sequences, FiniteSets, TLC

VARIABLES
    chipPresent,            \* /sys/class/pwm/pwmchip0 exists
    daemonReachable,        \* a PWM daemon is running (the driver never asks)
    hw,                     \* the kernel's channel: surface, enable, period, duty_cycle
    constructed,            \* __init__ has run
    backlight_pwm_enabled,  \* self._backlight_pwm_enabled
    kernel_pwm,             \* self._kernel_pwm (some = FALSE: None)
    using_kernel_pwm,       \* self._using_kernel_pwm
    backlight_pwm,          \* self._backlight_pwm, the software PWM (some = FALSE: None)
    blLine,                 \* level last driven on GPIO 13 by GPIO.output
    led_pwm,                \* self._led_pwm: pin -> software PWM object
    ledLine,                \* level last driven on each LED pin by GPIO.output
    raised,                 \* exception the last call left to its caller
    lastOp,                 \* the last call: its name, its argument, whether the try
                            \* block of __init__ caught an exception, and whether
                            \* the call repeats the one before it
    wlog,                   \* the sysfs writes the last call issued, in order
    accepted,               \* <<v>>: the last value set_backlight accepted; <<>>: none yet
    teardown,               \* "live", "exited" (atexit hooks ran), "deleted" (__del__ ran)
    explicitCalls,          \* explicit _cleanup() calls made so far
    cleanups,               \* runs of _cleanup so far
    unexportWrites,         \* writes issued to pwmchip0/unexport so far
    button_callback,        \* self._button_callback ("None" or the observer)
    event_detect,           \* pin -> callbacks RPi.GPIO holds for the pin's edges
    reg,                    \* where the main thread is inside on_button_pressed, the
                            \* callback it was given and the one given the time before
    irq,                    \* where RPi.GPIO's callback thread is inside _handle_button,
                            \* the pin of the edge it serves, the callbacks left to run
    delivered,              \* the observer calls made for the latest edge, in order
    script,                 \* the tester running ("none": no tester)
    running,                \* the tester is inside its while True loop
    now,                    \* the tester's latest time.time() * 1000, from its time origin
    last_press,             \* the tester's last_press: button -> ms
    brightness,             \* the tester's brightness
    freq_index,             \* the tester's freq_index
    pwm_request,            \* what update_pwm last asked of the PWM layer
    polled                  \* the loop's iterations so far: time, buttons read pressed,
                            \* buttons whose if-block ran

vars == <<chipPresent, daemonReachable, hw, constructed, backlight_pwm_enabled,
          kernel_pwm, using_kernel_pwm, backlight_pwm, blLine, led_pwm, ledLine,
          raised, lastOp, wlog, accepted, teardown, explicitCalls, cleanups,
          unexportWrites, button_callback, event_detect, reg, irq, delivered,
          script, running, now, last_press, brightness, freq_index, pwm_request, polled>>

buttonVars == <<button_callback, event_detect, reg, irq, delivered>>

testerVars == <<script, running, now, last_press, brightness, freq_index, pwm_request,
                polled>>

(***************************************************************************)
(* Bounds and inputs                                                       *)
(***************************************************************************)
MaxExplicit == 2

\* the short periods 1 .. MaxPeriodNs (in ns) the duty computation is tried on
MaxPeriodNs == 150

\* iterations of a tester's polling loop
MaxPolls == 3

\* set_backlight arguments, in hundredths: -0.01, 0.0, 0.29, 0.5, 1.0, 1.5
BacklightValues == {-1, 0, 29, 50, 100, 150}

\* set_frequency arguments
Frequencies == {1000, 2000}

(***************************************************************************)
(* Program constants                                                       *)
(***************************************************************************)
BACKLIGHT_PWM_FREQ == 2000
PWM_CHANNEL == 1
NANOS_PER_SECOND == 1000000000
debounce_ms == 200
LedPins == {"LED_R", "LED_G", "LED_B"}
\* (self.BUTTON_A, self.BUTTON_B, self.BUTTON_X, self.BUTTON_Y), in the order looped over
ButtonPins == <<"BUTTON_A", "BUTTON_B", "BUTTON_X", "BUTTON_Y">>
Buttons == {ButtonPins[i] : i \in 1..Len(ButtonPins)}

(***************************************************************************)
(* Float arithmetic of the duty computation                                *)
(***************************************************************************)
\* value * 100 for value = n/100 in double precision: exact except for these n
\* (0.29 * 100 = 28.999999999999996, 0.07 * 100 = 7.000000000000001, ...).
RoundsBelow == {29, 57, 58}
RoundsAbove == {7, 14, 28, 55, 56}

Times100(value) ==
    [p |-> value,
     e |-> IF value \in RoundsBelow THEN -1 ELSE IF value \in RoundsAbove THEN 1 ELSE 0]

\* an int percentage passed as is (set_duty_cycle(100), pwm.start(100))
IntPercent(n) == [p |-> n, e |-> 0]

\* int(1_000_000_000 / freq_hz)
PeriodNs(freq_hz) == NANOS_PER_SECOND \div freq_hz

\* seeded fault: the percentage divided by 100 in integers before the product
DutyNsPercentFirst(period_ns, duty_percent) == period_ns * (duty_percent.p \div 100)

\* int(self._period_ns * duty_percent / 100): truncation of the float quotient.  A
\* percentage just below an integer p falls one short when period_ns * p / 100 is whole.
DutyNs(period_ns, duty_percent) ==
    LET n == period_ns * duty_percent.p
    IN  IF duty_percent.e < 0 /\ n > 0 /\ n % 100 = 0
        THEN (n \div 100) - 1
        ELSE n \div 100

(***************************************************************************)
(* KernelPWM.  Each method maps a record K = [hw, kp, log, ret] (the       *)
(* kernel's channel, the object's fields, the writes issued, the return    *)
(* value) to the record after the call.  ok is whether the operating       *)
(* system accepts the write (open/write raise IOError/OSError otherwise).  *)
(***************************************************************************)
NoKernelPWM == [some |-> FALSE, exported |-> FALSE, period_ns |-> 0, enabled |-> FALSE]

KernelPWM == [some |-> TRUE, exported |-> FALSE, period_ns |-> 0, enabled |-> FALSE]

Unexported == [exported |-> FALSE, enabled |-> FALSE, period |-> 0, duty |-> 0]

Entry(filename, value, done, en) ==
    [file |-> filename, value |-> value, ok |-> done, en |-> en]

is_available(chip) == chip

\* seeded fault: _export without its except clause's return False
ExportResultIgnoringRefusal(done) == TRUE

\* what _export returns once the write to export was tried: False from the except
\* clause when the write was refused
ExportResult(done) == done

_export(K, chip, ok, appears) ==
    IF ~K.hw.exported
    THEN LET done == ok /\ chip
             K1 == [K EXCEPT !.log = Append(@, Entry("export", PWM_CHANNEL, done, K.hw.enabled))]
         IN  IF ExportResult(done)
             THEN [K1 EXCEPT !.hw = IF done THEN [Unexported EXCEPT !.exported = appears]
                                            ELSE @,
                             !.kp.exported = TRUE,
                             !.ret = TRUE]
             ELSE [K1 EXCEPT !.ret = FALSE]
    ELSE [K EXCEPT !.kp.exported = TRUE, !.ret = TRUE]

_write(K, filename, value, ok) ==
    LET done == ok /\ K.hw.exported
        hw2  == IF ~done THEN K.hw
                ELSE IF filename = "period" THEN [K.hw EXCEPT !.period = value]
                ELSE IF filename = "duty_cycle" THEN [K.hw EXCEPT !.duty = value]
                ELSE [K.hw EXCEPT !.enabled = (value = 1)]
    IN  [K EXCEPT !.hw = hw2,
                  !.log = Append(@, Entry(filename, value, done, K.hw.enabled)),
                  !.ret = done]

set_frequency(K, freq_hz, okDisable, okPeriod) ==
    LET period_ns == PeriodNs(freq_hz)
        K1 == IF K.kp.enabled THEN _write(K, "enable", 0, okDisable) ELSE K
        K2 == _write(K1, "period", period_ns, okPeriod)
    IN  [K2 EXCEPT !.kp.period_ns = period_ns]

\* seeded fault: set_duty_cycle records the duty it wrote in _period_ns, the way
\* set_frequency records the period
set_duty_cycle_recording(K, duty_percent, ok) ==
    IF K.kp.period_ns > 0
    THEN [_write(K, "duty_cycle", DutyNs(K.kp.period_ns, duty_percent), ok)
            EXCEPT !.kp.period_ns = DutyNs(K.kp.period_ns, duty_percent)]
    ELSE K

\* seeded fault: set_duty_cycle without its test of _period_ns
set_duty_cycle_unguarded(K, duty_percent, ok) ==
    _write(K, "duty_cycle", DutyNs(K.kp.period_ns, duty_percent), ok)

set_duty_cycle(K, duty_percent, ok) ==
    IF K.kp.period_ns > 0
    THEN _write(K, "duty_cycle", DutyNs(K.kp.period_ns, duty_percent), ok)
    ELSE K

enable(K, ok) ==
    LET K1 == _write(K, "enable", 1, ok)
    IN  IF K1.ret THEN [K1 EXCEPT !.kp.enabled = TRUE] ELSE K1

disable(K, ok) ==
    LET K1 == _write(K, "enable", 0, ok)
    IN  IF K1.ret THEN [K1 EXCEPT !.kp.enabled = FALSE] ELSE K1

\* open(".../unexport", "w").write(channel): the kernel removes the surface and
\* leaves the output as it is
Unexport(K, ok) ==
    LET done == ok /\ K.hw.exported
    IN  [K EXCEPT !.hw.exported = IF done THEN FALSE ELSE @,
                  !.log = Append(@, Entry("unexport", PWM_CHANNEL, done, K.hw.enabled))]

cleanup(K, okDisable, okUnexport) ==
    IF K.kp.exported
    THEN Unexport(disable(K, okDisable), okUnexport)
    ELSE K

(***************************************************************************)
(* DisplayHATMini.  Each method maps the record S of the object's fields   *)
(* and the hardware it drives to the record after the call, with the writes *)
(* issued (log) and the exception left to the caller (raised).             *)
(***************************************************************************)
NoSoftPWM == [some |-> FALSE, running |-> FALSE, duty |-> IntPercent(0), stops |-> 0]

\* GPIO.PWM(pin, freq) followed by .start(100)
StartedPWM == [some |-> TRUE, running |-> TRUE, duty |-> IntPercent(100), stops |-> 0]

\* seeded fault: _cleanup without the stop() calls taking effect
StopLeavesRunning(pwm) == [pwm EXCEPT !.stops = @ + 1]

\* pwm.stop()
Stop(pwm) == [pwm EXCEPT !.running = FALSE, !.stops = @ + 1]

ExcPoints == {"none", "_export", "set_frequency", "set_duty_cycle", "enable"}

Env == [exportOk : BOOLEAN, appears : BOOLEAN, periodOk : BOOLEAN,
        dutyOk : BOOLEAN, enableOk : BOOLEAN, excAt : ExcPoints]

\* __init__, lines 176-185: the kernel tier.  env.excAt is the call at which an
\* exception other than IOError/OSError is raised inside the try block, if any.
KernelTier(hw0, chip, env) ==
    LET K0 == [hw |-> hw0, kp |-> KernelPWM, log |-> <<>>, ret |-> FALSE]
        K1 == _export(K0, chip, env.exportOk, env.appears)
        K2 == set_frequency(K1, BACKLIGHT_PWM_FREQ, TRUE, env.periodOk)
        K3 == set_duty_cycle(K2, IntPercent(100), env.dutyOk)
        K4 == enable(K3, env.enableOk)
        Caught(K) == [hw |-> K.hw, log |-> K.log, kernel_pwm |-> NoKernelPWM,
                      using |-> FALSE, exc |-> TRUE]
    IN  IF ~is_available(chip)
        THEN [hw |-> hw0, log |-> <<>>, kernel_pwm |-> NoKernelPWM,
              using |-> FALSE, exc |-> FALSE]
        ELSE IF env.excAt = "_export" THEN Caught(K0)
        ELSE IF ~K1.ret
        THEN [hw |-> K1.hw, log |-> K1.log, kernel_pwm |-> K1.kp,
              using |-> FALSE, exc |-> FALSE]
        ELSE IF env.excAt = "set_frequency" THEN Caught(K1)
        ELSE IF env.excAt = "set_duty_cycle" THEN Caught(K2)
        ELSE IF env.excAt = "enable" THEN Caught(K3)
        ELSE [hw |-> K4.hw, log |-> K4.log, kernel_pwm |-> K4.kp,
              using |-> TRUE, exc |-> FALSE]

\* seeded fault: the fallback taken only when no KernelPWM object was made
FallbackOnlyWithoutObject(T) == ~T.kernel_pwm.some

\* if not self._using_kernel_pwm: fall back to software PWM
NeedsSoftwareFallback(T) == ~T.using

\* __init__, lines 150-194 (the display and SPI set-up of lines 196-216 drive no
\* state modelled here)
__init__(hw0, chip, backlight_pwm_arg, env) ==
    LET T == KernelTier(hw0, chip, env)
        leds == [pin \in LedPins |-> StartedPWM]
        lines == [pin \in LedPins |-> "unset"]
    IN  IF backlight_pwm_arg
        THEN [hw |-> T.hw, kernel_pwm |-> T.kernel_pwm, using_kernel_pwm |-> T.using,
              backlight_pwm |-> IF NeedsSoftwareFallback(T) THEN StartedPWM
                                                            ELSE NoSoftPWM,
              blLine |-> "unset", led_pwm |-> leds, ledLine |-> lines,
              log |-> T.log, raised |-> "none", exc |-> T.exc]
        ELSE [hw |-> hw0, kernel_pwm |-> NoKernelPWM, using_kernel_pwm |-> FALSE,
              backlight_pwm |-> NoSoftPWM,
              blLine |-> "HIGH", led_pwm |-> leds, ledLine |-> lines,
              log |-> <<>>, raised |-> "none", exc |-> FALSE]

\* seeded fault: only the upper limit is validated
InRangeUpperOnly(value) == value <= 100

\* 0.0 <= value <= 1.0, on hundredths
InRange(value) == 0 <= value /\ value <= 100

\* seeded fault: value >= 0 in place of value > 0
SwitchLevelNonNegative(value) == IF value >= 0 THEN "HIGH" ELSE "LOW"

\* GPIO.HIGH if value > 0 else GPIO.LOW
SwitchLevel(value) == IF value > 0 THEN "HIGH" ELSE "LOW"

\* the backend set_backlight dispatches to (lines 255-263)
Backend(S) ==
    IF S.using_kernel_pwm /\ S.kernel_pwm.some THEN "KernelPwm"
    ELSE IF S.backlight_pwm.some THEN "SoftwarePwm"
    ELSE "Switch"

set_backlight(S, value, ok) ==
    IF ~InRange(value)
    THEN [S EXCEPT !.raised = "ValueError", !.log = <<>>]
    ELSE IF Backend(S) = "KernelPwm"
    THEN LET K == set_duty_cycle([hw |-> S.hw, kp |-> S.kernel_pwm, log |-> <<>>,
                                  ret |-> FALSE], Times100(value), ok)
         IN  [S EXCEPT !.hw = K.hw, !.kernel_pwm = K.kp, !.log = K.log,
                       !.raised = "none"]
    ELSE IF Backend(S) = "SoftwarePwm"
    THEN [S EXCEPT !.backlight_pwm.duty = Times100(value), !.log = <<>>,
                   !.raised = "none"]
    ELSE [S EXCEPT !.blLine = SwitchLevel(value), !.log = <<>>, !.raised = "none"]

_cleanup(S, okDisable, okUnexport) ==
    LET K == cleanup([hw |-> S.hw, kp |-> S.kernel_pwm, log |-> <<>>, ret |-> FALSE],
                     okDisable, okUnexport)
        S1 == [S EXCEPT !.led_pwm = [pin \in LedPins |-> Stop(@[pin])],
                        !.backlight_pwm = IF @.some THEN Stop(@) ELSE @]
        S2 == IF S1.kernel_pwm.some
              THEN [S1 EXCEPT !.hw = K.hw, !.kernel_pwm = K.kp, !.log = K.log]
              ELSE [S1 EXCEPT !.log = <<>>]
    IN  [S2 EXCEPT !.ledLine = [pin \in LedPins |-> "HIGH"],
                   !.blLine = "LOW",
                   !.raised = "none"]

(***************************************************************************)
(* The state machine                                                       *)
(***************************************************************************)
Self == [hw |-> hw, kernel_pwm |-> kernel_pwm, using_kernel_pwm |-> using_kernel_pwm,
         backlight_pwm |-> backlight_pwm, blLine |-> blLine, led_pwm |-> led_pwm,
         ledLine |-> ledLine, log |-> wlog, raised |-> raised]

Store(R) ==
    /\ hw' = R.hw
    /\ kernel_pwm' = R.kernel_pwm
    /\ using_kernel_pwm' = R.using_kernel_pwm
    /\ backlight_pwm' = R.backlight_pwm
    /\ blLine' = R.blLine
    /\ led_pwm' = R.led_pwm
    /\ ledLine' = R.ledLine
    /\ wlog' = R.log
    /\ raised' = R.raised

Unexports(log) == Cardinality({i \in 1..Len(log) : log[i].file = "unexport"})

\* what the channel may hold before the program starts: nothing exported, or a
\* surface left behind by an earlier program
LeftBehind ==
    {[exported |-> TRUE, enabled |-> FALSE, period |-> 0, duty |-> 0],
     [exported |-> TRUE, enabled |-> TRUE, period |-> 1000000, duty |-> 500000]}

\* self._button_callback = None, and no edge detection asked of RPi.GPIO yet
NoObserver ==
    /\ button_callback = "None"
    /\ event_detect = [pin \in Buttons |-> 0]
    /\ reg = [pc |-> "idle", i |-> 0, arg |-> "None", prev |-> "None"]
    /\ irq = [pc |-> "idle", pin |-> "none", left |-> 0]
    /\ delivered = <<>>

\* no tester script is running
NoTester ==
    /\ script = "none"
    /\ running = FALSE
    /\ now = 0
    /\ last_press = [b \in Buttons |-> 0]
    /\ brightness = 0
    /\ freq_index = 0
    /\ pwm_request = [freq |-> 0, duty |-> 0]
    /\ polled = <<>>

Init ==
    /\ NoObserver
    /\ NoTester
    /\ chipPresent \in BOOLEAN
    /\ daemonReachable \in BOOLEAN
    /\ hw \in {Unexported} \cup (IF chipPresent THEN LeftBehind ELSE {})
    /\ constructed = FALSE
    /\ backlight_pwm_enabled = FALSE
    /\ kernel_pwm = NoKernelPWM
    /\ using_kernel_pwm = FALSE
    /\ backlight_pwm = NoSoftPWM
    /\ blLine = "unset"
    /\ led_pwm = [pin \in LedPins |-> NoSoftPWM]
    /\ ledLine = [pin \in LedPins |-> "unset"]
    /\ raised = "none"
    /\ lastOp = [op |-> "none", arg |-> 0, exc |-> FALSE, again |-> FALSE]
    /\ wlog = <<>>
    /\ accepted = <<>>
    /\ teardown = "live"
    /\ explicitCalls = 0
    /\ cleanups = 0
    /\ unexportWrites = 0

\* DisplayHATMini(backlight_pwm=...)
Construct(backlight_pwm_arg, env) ==
    /\ ~constructed
    /\ LET R == __init__(hw, chipPresent, backlight_pwm_arg, env)
       IN  /\ Store(R)
           /\ lastOp' = [op |-> "__init__", arg |-> IF backlight_pwm_arg THEN 1 ELSE 0,
                         exc |-> R.exc, again |-> FALSE]
    /\ constructed' = TRUE
    /\ backlight_pwm_enabled' = backlight_pwm_arg
    /\ UNCHANGED <<chipPresent, daemonReachable, accepted, teardown, explicitCalls,
                   cleanups, unexportWrites, buttonVars, testerVars>>

\* display.set_backlight(value)
SetBacklight(value, ok) ==
    /\ constructed /\ teardown = "live" /\ cleanups = 0
    /\ LET R == set_backlight(Self, value, ok)
       IN  /\ Store(R)
           /\ accepted' = IF R.raised = "none" THEN <<value>> ELSE accepted
    /\ lastOp' = [op |-> "set_backlight", arg |-> value, exc |-> FALSE,
                  again |-> (lastOp.op = "set_backlight" /\ lastOp.arg = value)]
    /\ UNCHANGED <<chipPresent, daemonReachable, constructed, backlight_pwm_enabled,
                   teardown, explicitCalls, cleanups, unexportWrites, buttonVars,
                   testerVars>>

\* display._kernel_pwm.set_frequency(freq_hz)
SetFrequency(freq_hz, okDisable, okPeriod) ==
    /\ constructed /\ teardown = "live" /\ cleanups = 0
    /\ kernel_pwm.some
    /\ LET K == set_frequency([hw |-> hw, kp |-> kernel_pwm, log |-> <<>>, ret |-> FALSE],
                              freq_hz, okDisable, okPeriod)
       IN  /\ hw' = K.hw
           /\ kernel_pwm' = K.kp
           /\ wlog' = K.log
    /\ raised' = "none"
    /\ lastOp' = [op |-> "set_frequency", arg |-> freq_hz, exc |-> FALSE,
                  again |-> (lastOp.op = "set_frequency" /\ lastOp.arg = freq_hz)]
    /\ UNCHANGED <<chipPresent, daemonReachable, constructed, backlight_pwm_enabled,
                   using_kernel_pwm, backlight_pwm, blLine, led_pwm, ledLine, accepted,
                   teardown, explicitCalls, cleanups, unexportWrites, buttonVars,
                   testerVars>>

\* one run of _cleanup, from whichever teardown path
RunCleanup(path, okDisable, okUnexport) ==
    /\ LET R == _cleanup(Self, okDisable, okUnexport)
       IN  /\ Store(R)
           /\ unexportWrites' = unexportWrites + Unexports(R.log)
    /\ cleanups' = cleanups + 1
    /\ lastOp' = [op |-> path, arg |-> cleanups + 1, exc |-> FALSE,
                  again |-> (cleanups >= 1)]
    /\ UNCHANGED <<chipPresent, daemonReachable, constructed, backlight_pwm_enabled,
                   using_kernel_pwm, accepted, buttonVars, testerVars>>

\* display._cleanup() called by the program
ExplicitCleanup(okDisable, okUnexport) ==
    /\ constructed /\ teardown = "live"
    /\ explicitCalls < MaxExplicit
    /\ RunCleanup("_cleanup", okDisable, okUnexport)
    /\ explicitCalls' = explicitCalls + 1
    /\ UNCHANGED teardown

\* the hook of atexit.register(self._cleanup), at interpreter exit
AtExit(okDisable, okUnexport) ==
    /\ constructed /\ teardown = "live"
    /\ RunCleanup("atexit", okDisable, okUnexport)
    /\ teardown' = "exited"
    /\ UNCHANGED explicitCalls

\* __del__: the atexit registry holds the bound method, so the object is
\* collected only after the hooks have run
Del(okDisable, okUnexport) ==
    /\ constructed /\ teardown = "exited"
    /\ RunCleanup("__del__", okDisable, okUnexport)
    /\ teardown' = "deleted"
    /\ UNCHANGED explicitCalls

Next ==
    \/ \E b \in BOOLEAN, env \in Env : Construct(b, env)
    \/ \E value \in BacklightValues, ok \in BOOLEAN : SetBacklight(value, ok)
    \/ \E f \in Frequencies, okD \in BOOLEAN, okP \in BOOLEAN : SetFrequency(f, okD, okP)
    \/ \E okD \in BOOLEAN, okU \in BOOLEAN : ExplicitCleanup(okD, okU)
    \/ \E okD \in BOOLEAN, okU \in BOOLEAN : AtExit(okD, okU)
    \/ \E okD \in BOOLEAN, okU \in BOOLEAN : Del(okD, okU)

Spec == Init /\ [][Next]_vars

(***************************************************************************)
(* Properties                                                              *)
(***************************************************************************)
\* the write to pwmchip0/export was tried by the last call and refused
ExportRefused == \E i \in 1..Len(wlog) : wlog[i].file = "export" /\ ~wlog[i].ok

AfterInit(dimming) == lastOp.op = "__init__" /\ lastOp.arg = (IF dimming THEN 1 ELSE 0)

\* C1: on every backend, set_backlight(v) with v < 0.0 or v > 1.0 raises the
\* validation error and writes nothing: no sysfs write is issued and the channel,
\* the lines, the PWM objects and every field of the controller are as before.
C1_OutOfRangeRejected ==
    [][(lastOp'.op = "set_backlight" /\ (lastOp'.arg < 0 \/ lastOp'.arg > 100))
         => /\ raised' = "ValueError"
            /\ wlog' = <<>>
            /\ hw' = hw
            /\ kernel_pwm' = kernel_pwm
            /\ using_kernel_pwm' = using_kernel_pwm
            /\ backlight_pwm' = backlight_pwm
            /\ blLine' = blLine
            /\ led_pwm' = led_pwm
            /\ ledLine' = ledLine
            /\ accepted' = accepted]_vars

\* C1 witness: set_backlight(1.5) was rejected on the kernel PWM backend, after a value
\* had been accepted
C1_Witness ==
    /\ lastOp.op = "set_backlight" /\ lastOp.arg = 150
    /\ raised = "ValueError"
    /\ Backend(Self) = "KernelPwm"
    /\ accepted = <<50>>

C3_KernelFailureFallsBack ==
    (AfterInit(TRUE) /\ (~chipPresent \/ ExportRefused \/ lastOp.exc))
        => /\ raised = "none"
           /\ ~using_kernel_pwm
           /\ Backend(Self) = "SoftwarePwm"
           /\ backlight_pwm.running
           /\ backlight_pwm.duty = IntPercent(100)

\* C3 witness: an exception was caught after the channel had been exported and
\* configured, and the software PWM took over
C3_Witness ==
    /\ AfterInit(TRUE)
    /\ lastOp.exc
    /\ Len(wlog) = 3
    /\ hw.exported
    /\ backlight_pwm.running

\* C4 as stated: whenever the constructor leaves using_hardware_pwm true (and the
\* channel's surface is there to be written), the channel is enabled with
\* period > 0 and duty equal to the period, also when individual writes fail.
C4_KernelSelectedIsDriven ==
    (lastOp.op = "__init__" /\ using_kernel_pwm /\ hw.exported)
        => /\ hw.enabled
           /\ hw.period > 0
           /\ hw.duty = hw.period

\* C5: without dimming the backend is the plain switch, high at construction, and
\* until teardown the line is high iff the last accepted value was > 0.0 (or none
\* has been accepted yet).
C5_SwitchFollowsLastAccepted ==
    (constructed /\ ~backlight_pwm_enabled /\ cleanups = 0)
        => /\ Backend(Self) = "Switch"
           /\ blLine \in {"HIGH", "LOW"}
           /\ (blLine = "HIGH") <=> (accepted = <<>> \/ accepted[1] > 0)

\* C5 witness: 0.0 was accepted, a later out-of-range value was rejected, the line is low
C5_Witness ==
    /\ constructed /\ ~backlight_pwm_enabled /\ cleanups = 0
    /\ accepted = <<0>>
    /\ raised = "ValueError"
    /\ blLine = "LOW"

\* C6 as stated: on the kernel backend set_frequency(f) records and writes
\* period_ns = floor(1_000_000_000 / f), and set_backlight(p/100) then writes
\* duty_cycle = floor(period_ns * p / 100).
C6_DutyIsFloorOfShare ==
    /\ lastOp.op = "set_frequency"
         => /\ kernel_pwm.period_ns = NANOS_PER_SECOND \div lastOp.arg
            /\ wlog # <<>>
            /\ wlog[Len(wlog)].file = "period"
            /\ wlog[Len(wlog)].value = NANOS_PER_SECOND \div lastOp.arg
    /\ (lastOp.op = "set_backlight" /\ raised = "none" /\ Backend(Self) = "KernelPwm")
         => /\ Len(wlog) = 1
            /\ wlog[1].file = "duty_cycle"
            /\ wlog[1].value = (kernel_pwm.period_ns * lastOp.arg) \div 100

\* what a backend shows of a set_backlight call: the channel (export, enable, period,
\* duty_cycle), the level of the backlight line, the software PWM's run state and duty
Visible(S) == <<S.hw, S.blLine, S.backlight_pwm.running, S.backlight_pwm.duty>>

\* the states one call, and two consecutive calls, of set_backlight(value) can end in
\* (the operating system accepts or refuses each duty_cycle write)
AfterOnce(value) == {Visible(set_backlight(Self, value, ok)) : ok \in BOOLEAN}

AfterTwice(value) ==
    {Visible(set_backlight(set_backlight(Self, value, ok[1]), value, ok[2])) :
        ok \in [1..2 -> BOOLEAN]}

\* C7: set_backlight is idempotent on every backend: for every valid v, two
\* consecutive calls end in the backend-visible states one call ends in, and once a
\* call has had its effect a repeat changes nothing.
C7_SetBacklightIdempotent ==
    (constructed /\ cleanups = 0)
        => \A value \in BacklightValues :
             InRange(value)
               => /\ AfterTwice(value) = AfterOnce(value)
                  /\ \A ok \in BOOLEAN :
                       Visible(set_backlight(set_backlight(Self, value, TRUE), value, ok))
                         = Visible(set_backlight(Self, value, TRUE))

\* C7 witness: set_backlight(0.5) was called twice in a row on the kernel backend
C7_Witness ==
    /\ lastOp.op = "set_backlight" /\ lastOp.arg = 50 /\ lastOp.again
    /\ Backend(Self) = "KernelPwm"
    /\ Len(wlog) = 1 /\ wlog[1].ok
    /\ hw.duty = 250000

\* the lines and software PWMs _cleanup drives
GpioSide ==
    <<ledLine, blLine, [pin \in LedPins |-> led_pwm[pin].running], backlight_pwm.running>>

GpioOff ==
    /\ \A pin \in LedPins : ledLine[pin] = "HIGH" /\ ~led_pwm[pin].running
    /\ blLine = "LOW"
    /\ ~backlight_pwm.running

AcceptedWrite(log, filename) ==
    \E i \in 1..Len(log) : log[i].file = filename /\ log[i].ok

C9_ReleasedOnce ==
    /\ unexportWrites <= 1
    /\ \A pin \in LedPins : led_pwm[pin].stops <= 1
    /\ backlight_pwm.stops <= 1

\* C10 as stated: in a cleanup of an exported channel the write enable = 0 comes
\* before the unexport write, no write enable = 1 lies between them, and the
\* unexport is not issued while the output is still enabled.
C10_DisabledBeforeUnexport ==
    \A i \in 1..Len(wlog) :
        wlog[i].file = "unexport"
          => /\ \E j \in 1..(i - 1) :
                  /\ wlog[j].file = "enable" /\ wlog[j].value = 0
                  /\ \A k \in (j + 1)..(i - 1) :
                        ~(wlog[k].file = "enable" /\ wlog[k].value = 1)
             /\ ~wlog[i].en

(***************************************************************************)
(* A KernelPWM object driven directly: KernelPWM(chip, channel) followed   *)
(* by its methods in any order, the way a program holding the object calls *)
(* them (pwm.set_frequency(f); pwm.set_duty_cycle(p); pwm.enable()).       *)
(* The controller's fields stay as Init leaves them.                       *)
(***************************************************************************)
\* set_duty_cycle arguments passed as ints
Percents == {0, 50, 100}

ChannelRest ==
    <<chipPresent, daemonReachable, constructed, backlight_pwm_enabled, using_kernel_pwm,
      backlight_pwm, blLine, led_pwm, ledLine, accepted, teardown, explicitCalls,
      cleanups, unexportWrites, buttonVars, testerVars>>

\* the record a method is applied to
Channel == [hw |-> hw, kp |-> kernel_pwm, log |-> <<>>, ret |-> FALSE]

\* a method returned K; no KernelPWM method lets an exception out
Returned(K, op, arg) ==
    /\ hw' = K.hw
    /\ kernel_pwm' = K.kp
    /\ wlog' = K.log
    /\ raised' = "none"
    /\ lastOp' = [op |-> op, arg |-> arg, exc |-> FALSE,
                  again |-> (lastOp.op = op /\ lastOp.arg = arg)]

\* pwm = KernelPWM(chip, channel)
InitChannel ==
    /\ NoObserver
    /\ NoTester
    /\ chipPresent \in BOOLEAN
    /\ daemonReachable = FALSE
    /\ hw \in {Unexported} \cup (IF chipPresent THEN LeftBehind ELSE {})
    /\ constructed = FALSE
    /\ backlight_pwm_enabled = FALSE
    /\ kernel_pwm = KernelPWM
    /\ using_kernel_pwm = FALSE
    /\ backlight_pwm = NoSoftPWM
    /\ blLine = "unset"
    /\ led_pwm = [pin \in LedPins |-> NoSoftPWM]
    /\ ledLine = [pin \in LedPins |-> "unset"]
    /\ raised = "none"
    /\ lastOp = [op |-> "none", arg |-> 0, exc |-> FALSE, again |-> FALSE]
    /\ wlog = <<>>
    /\ accepted = <<>>
    /\ teardown = "live"
    /\ explicitCalls = 0
    /\ cleanups = 0
    /\ unexportWrites = 0

\* pwm._export(); lastOp.arg is 1 when it returned True
CallExport(ok, appears) ==
    /\ LET K == _export(Channel, chipPresent, ok, appears)
       IN  Returned(K, "_export", IF K.ret THEN 1 ELSE 0)
    /\ UNCHANGED ChannelRest

\* pwm.set_frequency(freq_hz)
CallSetFrequency(freq_hz, okDisable, okPeriod) ==
    /\ Returned(set_frequency(Channel, freq_hz, okDisable, okPeriod), "set_frequency",
                freq_hz)
    /\ UNCHANGED ChannelRest

\* pwm.set_duty_cycle(percent)
CallSetDutyCycle(percent, ok) ==
    /\ Returned(set_duty_cycle(Channel, IntPercent(percent), ok), "set_duty_cycle", percent)
    /\ UNCHANGED ChannelRest

\* pwm.enable()
CallEnable(ok) ==
    /\ Returned(enable(Channel, ok), "enable", 0)
    /\ UNCHANGED ChannelRest

\* pwm.disable()
CallDisable(ok) ==
    /\ Returned(disable(Channel, ok), "disable", 0)
    /\ UNCHANGED ChannelRest

\* pwm.cleanup()
CallCleanup(okDisable, okUnexport) ==
    /\ Returned(cleanup(Channel, okDisable, okUnexport), "cleanup", 0)
    /\ UNCHANGED ChannelRest

NextChannel ==
    \/ \E ok \in BOOLEAN, appears \in BOOLEAN : CallExport(ok, appears)
    \/ \E f \in Frequencies, okD \in BOOLEAN, okP \in BOOLEAN : CallSetFrequency(f, okD, okP)
    \/ \E p \in Percents, ok \in BOOLEAN : CallSetDutyCycle(p, ok)
    \/ \E ok \in BOOLEAN : CallEnable(ok)
    \/ \E ok \in BOOLEAN : CallDisable(ok)
    \/ \E okD \in BOOLEAN, okU \in BOOLEAN : CallCleanup(okD, okU)

SpecChannel == InitChannel /\ [][NextChannel]_vars

(***************************************************************************)
(* Properties of the KernelPWM object on its own                           *)
(***************************************************************************)
\* C13 as stated: enable() on a channel whose period was never configured
\* (_period_ns = 0) signals NotConfigured to the caller and does not mark the
\* channel enabled.
C13_EnableUnconfiguredSignals ==
    (lastOp.op = "enable" /\ kernel_pwm.period_ns = 0)
        => (raised = "NotConfigured" /\ ~kernel_pwm.enabled)

\* C14 as stated: when the creation request was accepted and the control surface
\* has still not appeared after the wait, _export reports failure and the
\* channel is not marked exported.
C14_ExportReportsMissingSurface ==
    (/\ lastOp.op = "_export"
     /\ \E i \in 1..Len(wlog) : wlog[i].file = "export" /\ wlog[i].ok
     /\ ~hw.exported)
        => (lastOp.arg = 0 /\ ~kernel_pwm.exported)

\* C17 as stated, with the allowance the design makes for a refused disable: a
\* period write the channel accepts is issued with the output disabled, unless the
\* call tried to disable first and that write was refused.
C17_PeriodWrittenDisabled ==
    \A i \in 1..Len(wlog) :
        (wlog[i].file = "period" /\ wlog[i].ok /\ wlog[i].en)
          => \E j \in 1..(i - 1) :
                wlog[j].file = "enable" /\ wlog[j].value = 0 /\ ~wlog[j].ok

\* every write the coming call issues is accepted
AllAccepted == \A i \in 1..Len(wlog') : wlog'[i].ok

\* C18 as stated, as the step that keeps it: on a channel whose duty_cycle is at
\* most its period and whose period is the one the object recorded, a
\* set_frequency or set_duty_cycle call whose writes are all accepted leaves the
\* duty_cycle at most the period.
C18_DutyWithinPeriod ==
    [][(/\ lastOp'.op \in {"set_frequency", "set_duty_cycle"}
        /\ hw.exported
        /\ hw.duty <= hw.period
        /\ kernel_pwm.period_ns = hw.period
        /\ AllAccepted)
          => hw'.duty <= hw'.period]_vars

C22_EnabledFlagTracksChannel ==
    [][(/\ lastOp'.op \in {"set_frequency", "set_duty_cycle", "enable", "disable"}
        /\ hw.exported
        /\ kernel_pwm.enabled = hw.enabled
        /\ AllAccepted)
          => kernel_pwm'.enabled = hw'.enabled]_vars

(***************************************************************************)
(* Properties of the controller, continued                                 *)
(***************************************************************************)
\* C15 as stated: after construction, when the duty_cycle write of a
\* set_backlight call on the exported kernel channel fails, the call leaves an
\* error to its caller.
C15_FailedDutyWriteSurfaced ==
    (/\ lastOp.op = "set_backlight"
     /\ hw.exported
     /\ \E i \in 1..Len(wlog) : wlog[i].file = "duty_cycle" /\ ~wlog[i].ok)
        => raised # "none"

(***************************************************************************)
(* The duty computation on its own: set_duty_cycle(percent) for every      *)
(* integer percent, on a channel that _export() and set_frequency(f) have  *)
(* configured.                                                             *)
(***************************************************************************)
\* frequencies whose period int(1e9 / f) is 1 .. MaxPeriodNs, and the usual ones
DutyFrequencies == {NANOS_PER_SECOND \div k : k \in 1..MaxPeriodNs} \cup Frequencies

\* pwm = KernelPWM(chip, channel); pwm._export(); pwm.set_frequency(f)
InitDuty ==
    /\ NoObserver
    /\ NoTester
    /\ chipPresent = TRUE
    /\ daemonReachable = FALSE
    /\ \E f \in DutyFrequencies :
         LET K0 == _export([hw |-> Unexported, kp |-> KernelPWM, log |-> <<>>, ret |-> FALSE],
                           TRUE, TRUE, TRUE)
             K  == set_frequency([K0 EXCEPT !.log = <<>>], f, TRUE, TRUE)
         IN  /\ hw = K.hw
             /\ kernel_pwm = K.kp
             /\ wlog = K.log
             /\ lastOp = [op |-> "set_frequency", arg |-> f, exc |-> FALSE, again |-> FALSE]
    /\ constructed = FALSE
    /\ backlight_pwm_enabled = FALSE
    /\ using_kernel_pwm = FALSE
    /\ backlight_pwm = NoSoftPWM
    /\ blLine = "unset"
    /\ led_pwm = [pin \in LedPins |-> NoSoftPWM]
    /\ ledLine = [pin \in LedPins |-> "unset"]
    /\ raised = "none"
    /\ accepted = <<>>
    /\ teardown = "live"
    /\ explicitCalls = 0
    /\ cleanups = 0
    /\ unexportWrites = 0

\* the write is accepted: what is of interest is the value computed
NextDuty == \E percent \in 0..100 : CallSetDutyCycle(percent, TRUE)

SpecDuty == InitDuty /\ [][NextDuty]_vars

\* floor(duty_ns * 100 / period_ns) of the duty the last set_duty_cycle wrote
RederivedPercent == (wlog[1].value * 100) \div kernel_pwm.period_ns

Distance(a, b) == IF a >= b THEN a - b ELSE b - a

\* C16 as stated: for every integer percent in 0..100 and every period_ns > 0,
\* the duty set_duty_cycle computes gives back a percent within 1 of the one asked.
C16_RoundTripAnyPeriod ==
    (lastOp.op = "set_duty_cycle" /\ kernel_pwm.period_ns > 0 /\ Len(wlog) = 1)
        => Distance(RederivedPercent, lastOp.arg) <= 1

\* C16, amended: the same for every period_ns >= 100; the re-derived percent is
\* never above the one asked.
C16_RoundTripFromHundredNs ==
    (lastOp.op = "set_duty_cycle" /\ kernel_pwm.period_ns >= 100 /\ Len(wlog) = 1)
        => /\ Distance(RederivedPercent, lastOp.arg) <= 1
           /\ RederivedPercent <= lastOp.arg

\* set_duty_cycle(33) at a period of 150 ns wrote 49, which re-derives to 32
C16_Witness ==
    /\ lastOp.op = "set_duty_cycle" /\ lastOp.arg = 33
    /\ kernel_pwm.period_ns = 150
    /\ Len(wlog) = 1 /\ wlog[1].file = "duty_cycle" /\ wlog[1].value = 49
    /\ RederivedPercent = 32

(***************************************************************************)
(* The interactive testers, examples/pwm_kernel_test.py and                *)
(* examples/pwm_test.py: main() after its set-up, and its polling loop.    *)
(* Times are milliseconds from an origin far enough back that the clock    *)
(* reads more than the debounce window, as time.time() * 1000 does.        *)
(***************************************************************************)
Scripts == {"pwm_kernel_test", "pwm_test"}

\* the clock when the loop is entered
StartMs == 1000

\* time from one iteration's reading of the clock to the next
PollGaps == {50, 200, 210}

\* what one iteration reads on the four lines: the buttons that read pressed
PressedSets == {{}} \cup {{b} : b \in Buttons} \cup {Buttons}

FREQUENCIES(which) ==
    IF which = "pwm_kernel_test"
    THEN <<100, 200, 500, 1000, 2000, 5000, 10000, 20000, 50000, 100000>>
    ELSE <<100, 200, 500, 1000, 2000, 5000, 10000, 15000, 20000, 25000>>

\* seeded fault: min(limit, x) giving x whatever the limit
MinUnclamped(a, b) == b

Min(a, b) == IF a <= b THEN a ELSE b
Max(a, b) == IF a >= b THEN a ELSE b

\* seeded fault: the debounce test with >= for >
ElapsedOrEqual(t, last) == t - last >= debounce_ms

\* now - last_press[BUTTON] > debounce_ms
Elapsed(t, last) == t - last > debounce_ms

\* update_pwm(): the frequency and the duty asked of the PWM layer, a percentage
\* for pwm.set_duty_cycle, millionths for pi.hardware_PWM
update_pwm(which, level, index) ==
    [freq |-> FREQUENCIES(which)[index + 1],
     duty |-> IF which = "pwm_test" THEN (level * 1000000) \div 100 ELSE level]

InitTester ==
    /\ NoObserver
    /\ chipPresent = TRUE
    /\ daemonReachable \in BOOLEAN
    /\ hw = Unexported
    /\ constructed = FALSE
    /\ backlight_pwm_enabled = FALSE
    /\ kernel_pwm = NoKernelPWM
    /\ using_kernel_pwm = FALSE
    /\ backlight_pwm = NoSoftPWM
    /\ blLine = "unset"
    /\ led_pwm = [pin \in LedPins |-> NoSoftPWM]
    /\ ledLine = [pin \in LedPins |-> "unset"]
    /\ raised = "none"
    /\ lastOp = [op |-> "none", arg |-> 0, exc |-> FALSE, again |-> FALSE]
    /\ wlog = <<>>
    /\ accepted = <<>>
    /\ teardown = "live"
    /\ explicitCalls = 0
    /\ cleanups = 0
    /\ unexportWrites = 0
    /\ script \in Scripts
    /\ running = TRUE
    /\ now = StartMs
    /\ last_press = [b \in Buttons |-> 0]
    /\ brightness = 100
    /\ freq_index = 3
    /\ pwm_request = update_pwm(script, 100, 3)
    /\ polled = <<>>

TesterRest ==
    <<chipPresent, daemonReachable, hw, constructed, backlight_pwm_enabled, kernel_pwm,
      using_kernel_pwm, backlight_pwm, blLine, led_pwm, ledLine, raised, lastOp, wlog,
      accepted, teardown, explicitCalls, cleanups, unexportWrites, buttonVars>>

\* one iteration of while True: the clock is read gap ms after the last reading,
\* pressed are the buttons read_button finds pressed, pwmOk is whether update_pwm
\* returns (an exception ends the program through the finally block)
Poll(gap, pressed, pwmOk) ==
    /\ running
    /\ Len(polled) < MaxPolls
    /\ LET t      == now + gap
           fired  == {b \in pressed : Elapsed(t, last_press[b])}
           level1 == IF "BUTTON_A" \in fired THEN Min(100, brightness + 10) ELSE brightness
           level2 == IF "BUTTON_B" \in fired THEN Max(0, level1 - 10) ELSE level1
           index1 == IF "BUTTON_X" \in fired
                     THEN Min(Len(FREQUENCIES(script)) - 1, freq_index + 1)
                     ELSE freq_index
           index2 == IF "BUTTON_Y" \in fired THEN Max(0, index1 - 1) ELSE index1
           changed == fired # {}
       IN  /\ now' = t
           /\ last_press' = [b \in Buttons |-> IF b \in fired THEN t ELSE last_press[b]]
           /\ brightness' = level2
           /\ freq_index' = index2
           /\ pwm_request' = IF changed THEN update_pwm(script, level2, index2)
                             ELSE pwm_request
           /\ running' = (changed => pwmOk)
           /\ polled' = Append(polled, [t |-> t, pressed |-> pressed, fired |-> fired])
    /\ UNCHANGED <<script, TesterRest>>

\* Ctrl+C
KeyboardInterrupt ==
    /\ running
    /\ running' = FALSE
    /\ UNCHANGED <<script, now, last_press, brightness, freq_index, pwm_request, polled,
                   TesterRest>>

NextTester ==
    \/ \E gap \in PollGaps, pressed \in PressedSets, pwmOk \in BOOLEAN :
          Poll(gap, pressed, pwmOk)
    \/ KeyboardInterrupt

SpecTester == InitTester /\ [][NextTester]_vars

(***************************************************************************)
(* The testers some accepted presses into their run: brightness after up   *)
(* to ten accepted presses of B, freq_index after up to three of Y or six   *)
(* of X, every one of them more than the debounce window back (the time    *)
(* origin is moved behind them, polled starts again), and from there every *)
(* iteration 210 ms after the one before, so that each press is accepted.  *)
(***************************************************************************)
RECURSIVE Dimmed(_, _)
\* brightness = max(0, brightness - 10), n times
Dimmed(level, n) == IF n = 0 THEN level ELSE Dimmed(Max(0, level - 10), n - 1)

RECURSIVE Lowered(_, _)
\* freq_index = max(0, freq_index - 1), n times
Lowered(index, n) == IF n = 0 THEN index ELSE Lowered(Max(0, index - 1), n - 1)

RECURSIVE Raised(_, _, _)
\* freq_index = min(len(FREQUENCIES) - 1, freq_index + 1), n times
Raised(which, index, n) ==
    IF n = 0 THEN index
    ELSE Raised(which, Min(Len(FREQUENCIES(which)) - 1, index + 1), n - 1)

InitMidRun ==
    /\ NoObserver
    /\ chipPresent = TRUE
    /\ daemonReachable = FALSE
    /\ hw = Unexported
    /\ constructed = FALSE
    /\ backlight_pwm_enabled = FALSE
    /\ kernel_pwm = NoKernelPWM
    /\ using_kernel_pwm = FALSE
    /\ backlight_pwm = NoSoftPWM
    /\ blLine = "unset"
    /\ led_pwm = [pin \in LedPins |-> NoSoftPWM]
    /\ ledLine = [pin \in LedPins |-> "unset"]
    /\ raised = "none"
    /\ lastOp = [op |-> "none", arg |-> 0, exc |-> FALSE, again |-> FALSE]
    /\ wlog = <<>>
    /\ accepted = <<>>
    /\ teardown = "live"
    /\ explicitCalls = 0
    /\ cleanups = 0
    /\ unexportWrites = 0
    /\ script \in Scripts
    /\ running = TRUE
    /\ now = StartMs
    /\ last_press = [b \in Buttons |-> 0]
    /\ \E nB \in 0..10, nY \in 0..3, nX \in 0..6 :
         /\ nY = 0 \/ nX = 0
         /\ brightness = Dimmed(100, nB)
         /\ freq_index = Raised(script, Lowered(3, nY), nX)
    /\ pwm_request = update_pwm(script, brightness, freq_index)
    /\ polled = <<>>

NextMidRun ==
    \/ \E pressed \in PressedSets : Poll(210, pressed, TRUE)
    \/ KeyboardInterrupt

SpecMidRun == InitMidRun /\ [][NextMidRun]_vars

(***************************************************************************)
(* Properties of the testers' polling loop                                 *)
(***************************************************************************)
\* the iterations that read b pressed, and those that delivered an event for b
ReadsOf(b) == {k \in 1..Len(polled) : b \in polled[k].pressed}
EventsOf(b) == {k \in 1..Len(polled) : b \in polled[k].fired}

\* C11: when a button has been read pressed exactly twice, at t1 and then t2, the
\* loop has delivered one event for it if t2 - t1 <= 200 ms (the first read), and
\* two if t2 - t1 > 200 ms; a button read pressed once has one event.
C11_DebounceWindow ==
    \A b \in Buttons :
        /\ Cardinality(ReadsOf(b)) = 1 => EventsOf(b) = ReadsOf(b)
        /\ Cardinality(ReadsOf(b)) = 2 =>
              LET k1 == CHOOSE k \in ReadsOf(b) : \A j \in ReadsOf(b) : k <= j
                  k2 == CHOOSE k \in ReadsOf(b) : \A j \in ReadsOf(b) : k >= j
              IN  IF polled[k2].t - polled[k1].t <= debounce_ms
                  THEN EventsOf(b) = {k1}
                  ELSE EventsOf(b) = {k1, k2}

\* BUTTON_A read pressed at t and again at t + 50: one event; BUTTON_X read
\* pressed 210 ms apart: two
C11_Witness ==
    /\ Len(polled) = 2
    /\ \/ /\ ReadsOf("BUTTON_A") = {1, 2}
          /\ polled[2].t - polled[1].t = 50
          /\ EventsOf("BUTTON_A") = {1}
          /\ brightness = 100
       \/ /\ ReadsOf("BUTTON_X") = {1, 2}
          /\ polled[2].t - polled[1].t = 210
          /\ EventsOf("BUTTON_X") = {1, 2}
          /\ freq_index = 5

\* C20 as stated: a button read pressed on every iteration from one to a later
\* one, with no release between, has not had an event delivered twice over them.
C20_HeldButtonOneEvent ==
    \A b \in Buttons : \A i \in 1..Len(polled) : \A j \in (i + 1)..Len(polled) :
        (\A k \in i..j : b \in polled[k].pressed)
          => ~(b \in polled[i].fired /\ b \in polled[j].fired)

\* C23: in both testers, whatever the buttons did, brightness is a multiple of 10
\* within 0..100, freq_index is an index of FREQUENCIES, and the last update_pwm
\* asked for a frequency of the list and a duty within 0..100 % (of 100 for
\* pwm.set_duty_cycle, of 1000000 for pi.hardware_PWM), those of the current
\* brightness and freq_index.
C23_TesterValuesInRange ==
    /\ brightness \in {10 * k : k \in 0..10}
    /\ freq_index \in 0..(Len(FREQUENCIES(script)) - 1)
    /\ \E i \in 1..Len(FREQUENCIES(script)) : pwm_request.freq = FREQUENCIES(script)[i]
    /\ pwm_request.freq = FREQUENCIES(script)[freq_index + 1]
    /\ IF script = "pwm_test"
       THEN pwm_request.duty \in 0..1000000 /\ pwm_request.duty = brightness * 10000
       ELSE pwm_request.duty \in 0..100 /\ pwm_request.duty = brightness

\* at the far ends: BUTTON_B delivered twice and BUTTON_X once more, with
\* brightness 0 and the last frequency of pwm_kernel_test.py asked for
C23_Witness ==
    /\ script = "pwm_kernel_test"
    /\ Len(polled) = 3
    /\ polled[1].fired = {"BUTTON_B"} /\ polled[2].fired = {"BUTTON_B"}
    /\ polled[3].fired = {"BUTTON_X"}
    /\ brightness = 0 /\ freq_index = 9
    /\ pwm_request = [freq |-> 100000, duty |-> 0]

(***************************************************************************)
(* Button observers: on_button_pressed on the main thread, statement by    *)
(* statement, and _handle_button on the thread RPi.GPIO runs edge          *)
(* callbacks on, one attribute read at a time.                             *)
(***************************************************************************)
\* the functions a program passes to on_button_pressed
Observers == {"f", "g"}

\* pwm off: display = DisplayHATMini(backlight_pwm=False)
InitButtons ==
    /\ NoObserver
    /\ NoTester
    /\ chipPresent \in BOOLEAN
    /\ daemonReachable \in BOOLEAN
    /\ \E env \in Env :
         LET R == __init__(Unexported, chipPresent, FALSE, env)
         IN  /\ hw = R.hw
             /\ kernel_pwm = R.kernel_pwm
             /\ using_kernel_pwm = R.using_kernel_pwm
             /\ backlight_pwm = R.backlight_pwm
             /\ blLine = R.blLine
             /\ led_pwm = R.led_pwm
             /\ ledLine = R.ledLine
             /\ wlog = R.log
             /\ raised = R.raised
    /\ constructed = TRUE
    /\ backlight_pwm_enabled = FALSE
    /\ lastOp = [op |-> "__init__", arg |-> 0, exc |-> FALSE, again |-> FALSE]
    /\ accepted = <<>>
    /\ teardown = "live"
    /\ explicitCalls = 0
    /\ cleanups = 0
    /\ unexportWrites = 0

ButtonsRest ==
    <<chipPresent, daemonReachable, hw, constructed, backlight_pwm_enabled, kernel_pwm,
      using_kernel_pwm, backlight_pwm, blLine, led_pwm, ledLine, wlog, accepted,
      teardown, explicitCalls, cleanups, unexportWrites, testerVars>>

\* seeded fault: on_button_pressed without its GPIO.remove_event_detect(pin)
RemoveDetectKeeps(callbacks) == callbacks

\* GPIO.remove_event_detect(pin): the pin's edge detection and its callbacks go
RemoveDetect(callbacks) == 0

\* display.on_button_pressed(callback), line 290: self._button_callback = callback
OnButtonPressed(callback) ==
    /\ reg.pc = "idle"
    /\ button_callback' = callback
    /\ reg' = [pc |-> "remove", i |-> 1, arg |-> callback, prev |-> reg.arg]
    /\ raised' = "none"
    /\ lastOp' = [op |-> "on_button_pressed", arg |-> 0, exc |-> FALSE,
                  again |-> (lastOp.op = "on_button_pressed")]
    /\ UNCHANGED <<event_detect, irq, delivered, ButtonsRest>>

\* lines 294-297, for the pin the loop is at
RemoveEventDetect ==
    /\ reg.pc = "remove"
    /\ event_detect' = [event_detect EXCEPT ![ButtonPins[reg.i]] = RemoveDetect(@)]
    /\ reg' = [reg EXCEPT !.pc = "add"]
    /\ UNCHANGED <<button_callback, irq, delivered, raised, lastOp, ButtonsRest>>

\* lines 300-305, for the pin the loop is at: RPi.GPIO raises RuntimeError when the
\* pin already has edge detection, and on_button_pressed lets it out
AddEventDetect ==
    /\ reg.pc = "add"
    /\ IF event_detect[ButtonPins[reg.i]] > 0
       THEN /\ raised' = "RuntimeError"
            /\ reg' = [reg EXCEPT !.pc = "idle"]
            /\ UNCHANGED event_detect
       ELSE /\ event_detect' = [event_detect EXCEPT ![ButtonPins[reg.i]] = 1]
            /\ reg' = IF reg.i < Len(ButtonPins)
                      THEN [reg EXCEPT !.pc = "remove", !.i = @ + 1]
                      ELSE [reg EXCEPT !.pc = "idle"]
            /\ UNCHANGED raised
    /\ UNCHANGED <<button_callback, irq, delivered, lastOp, ButtonsRest>>

\* an edge on pin that RPi.GPIO accepts (outside bouncetime): its callback thread
\* starts on the callbacks held for the pin
Edge(pin) ==
    /\ irq.pc = "idle"
    /\ event_detect[pin] > 0
    /\ irq' = [pc |-> "check", pin |-> pin, left |-> event_detect[pin]]
    /\ delivered' = <<>>
    /\ UNCHANGED <<button_callback, event_detect, reg, raised, lastOp, ButtonsRest>>

\* the callback thread's position once one _handle_button call is over
AfterCallback == IF irq.left > 1 THEN [irq EXCEPT !.pc = "check", !.left = @ - 1]
                                 ELSE [irq EXCEPT !.pc = "idle", !.left = 0]

\* _handle_button, line 309: if self._button_callback
HandleButtonTest ==
    /\ irq.pc = "check"
    /\ irq' = IF button_callback # "None" THEN [irq EXCEPT !.pc = "call"] ELSE AfterCallback
    /\ UNCHANGED <<button_callback, event_detect, reg, delivered, raised, lastOp,
                   ButtonsRest>>

\* _handle_button, line 310: self._button_callback(pin), the attribute read again
HandleButtonCall ==
    /\ irq.pc = "call"
    /\ delivered' = IF button_callback # "None"
                    THEN Append(delivered, [pin |-> irq.pin, to |-> button_callback])
                    ELSE delivered
    /\ irq' = AfterCallback
    /\ UNCHANGED <<button_callback, event_detect, reg, raised, lastOp, ButtonsRest>>

NextButtons ==
    \/ \E callback \in Observers : OnButtonPressed(callback)
    \/ RemoveEventDetect
    \/ AddEventDetect
    \/ \E pin \in Buttons : Edge(pin)
    \/ HandleButtonTest
    \/ HandleButtonCall

SpecButtons == InitButtons /\ [][NextButtons]_vars

(***************************************************************************)
(* Properties of the button observers                                      *)
(***************************************************************************)
\* C12: registration never fails and never leaves more than one callback on a
\* pin; once an on_button_pressed call has returned every button pin has exactly
\* one; each accepted edge, once served, has called one observer once; and every
\* observer call is made with the pin of the edge, to the observer most recently
\* given to on_button_pressed.
C12_ObserversReplace ==
    /\ [](/\ raised = "none"
          /\ \A pin \in Buttons : event_detect[pin] <= 1
          /\ (reg.pc = "idle" /\ reg.arg # "None")
                => \A pin \in Buttons : event_detect[pin] = 1
          /\ Len(delivered) <= 1
          /\ (irq.pc = "idle" /\ irq.pin # "none") => Len(delivered) = 1)
    /\ [][Len(delivered') > Len(delivered)
            => /\ delivered'[Len(delivered')].pin = irq.pin
               /\ delivered'[Len(delivered')].to = reg.arg]_vars

\* g is being registered over f (pins A and B done, X and Y still on the handler
\* installed for f), and an edge on BUTTON_Y was delivered to g, once
C12_Witness ==
    /\ reg.prev = "f" /\ reg.arg = "g"
    /\ reg.pc = "remove" /\ reg.i = 3
    /\ event_detect = [pin \in Buttons |-> 1]
    /\ irq.pc = "idle" /\ irq.pin = "BUTTON_Y"
    /\ delivered = <<[pin |-> "BUTTON_Y", to |-> "g"]>>

(***************************************************************************)
(* The RGB LED: display.set_led(r, g, b) on a constructed controller.      *)
(* Intensities are hundredths, as the backlight values are.                *)
(***************************************************************************)
\* set_led arguments, in hundredths: -0.01, 0.0, 0.34, 1.0, 1.5
LedValues == {-1, 0, 34, 100, 150}

\* (1.0 - value) * 100 for value = n/100 in double precision against 100 - n: exact
\* except for these n ((1.0 - 0.34) * 100 = 65.99999999999999, ...)
InvertsBelow == {34, 55, 56, 67, 68, 78, 79, 80, 81, 89, 90, 91, 92, 93}
InvertsAbove == {41, 42, 43, 44, 45, 57, 58, 69, 70, 71, 72, 82, 83, 84, 85, 86,
                 94, 95, 96, 97, 98, 99}

\* (1.0 - value) * 100
Inverted(value) ==
    [p |-> 100 - value,
     e |-> IF value \in InvertsBelow THEN -1 ELSE IF value \in InvertsAbove THEN 1 ELSE 0]

\* pwm.ChangeDutyCycle(duty)
ChangeDutyCycle(pwm, duty) == [pwm EXCEPT !.duty = duty]

\* seeded fault: each component validated just before its own channel is written
set_led_validating_in_turn(S, r, g, b) ==
    LET S1 == [S EXCEPT !.led_pwm["LED_R"] = ChangeDutyCycle(@, Inverted(r))]
        S2 == [S1 EXCEPT !.led_pwm["LED_G"] = ChangeDutyCycle(@, Inverted(g))]
        S3 == [S2 EXCEPT !.led_pwm["LED_B"] = ChangeDutyCycle(@, Inverted(b))]
    IN  IF ~InRange(r) THEN [S EXCEPT !.raised = "ValueError", !.log = <<>>]
        ELSE IF ~InRange(g) THEN [S1 EXCEPT !.raised = "ValueError", !.log = <<>>]
        ELSE IF ~InRange(b) THEN [S2 EXCEPT !.raised = "ValueError", !.log = <<>>]
        ELSE [S3 EXCEPT !.raised = "none", !.log = <<>>]

set_led(S, r, g, b) ==
    IF ~(InRange(r) /\ InRange(g) /\ InRange(b))
    THEN [S EXCEPT !.raised = "ValueError", !.log = <<>>]
    ELSE [S EXCEPT !.led_pwm = [pin \in LedPins |->
                                  ChangeDutyCycle(@[pin],
                                      Inverted(IF pin = "LED_R" THEN r
                                               ELSE IF pin = "LED_G" THEN g ELSE b))],
                   !.raised = "none", !.log = <<>>]

\* display.set_led(r, g, b); lastOp.arg is <<r, g, b>>
SetLed(r, g, b) ==
    /\ constructed /\ teardown = "live" /\ cleanups = 0
    /\ Store(set_led(Self, r, g, b))
    /\ lastOp' = [op |-> "set_led", arg |-> <<r, g, b>>, exc |-> FALSE,
                  again |-> (lastOp.op = "set_led" /\ lastOp.arg = <<r, g, b>>)]
    /\ UNCHANGED <<chipPresent, daemonReachable, constructed, backlight_pwm_enabled,
                   accepted, teardown, explicitCalls, cleanups, unexportWrites,
                   buttonVars, testerVars>>

NextLed == \E r \in LedValues, g \in LedValues, b \in LedValues : SetLed(r, g, b)

\* display = DisplayHATMini(backlight_pwm=False), on a board with the PWM chip
InitLed == InitButtons /\ chipPresent /\ ~daemonReachable

SpecLed == InitLed /\ [][NextLed]_vars

(***************************************************************************)
(* Properties of the RGB LED                                               *)
(***************************************************************************)
\* the duty each LED channel holds
LedDuty == [pin \in LedPins |-> led_pwm[pin].duty]

\* C21: a set_led(r, g, b) with any of r, g, b outside [0.0, 1.0] raises
\* ValueError and leaves the duty of every LED channel as it was; otherwise no
\* error is raised and the channels of r, g, b hold (1.0 - r) * 100,
\* (1.0 - g) * 100, (1.0 - b) * 100: 100 less the intensity in percent, up to the
\* rounding of the product, and within 0 .. 100.
C21_SetLedValidatesFirst ==
    [][lastOp'.op = "set_led"
         => LET r == lastOp'.arg[1]
                g == lastOp'.arg[2]
                b == lastOp'.arg[3]
                Valid(v) == 0 <= v /\ v <= 100
            IN  IF Valid(r) /\ Valid(g) /\ Valid(b)
                THEN /\ raised' = "none"
                     /\ LedDuty' = [pin \in LedPins |->
                                       Inverted(IF pin = "LED_R" THEN r
                                                ELSE IF pin = "LED_G" THEN g ELSE b)]
                     /\ \A pin \in LedPins :
                           /\ LedDuty'[pin].p \in 0..100
                           /\ LedDuty'[pin].p + lastOp'.arg[IF pin = "LED_R" THEN 1
                                ELSE IF pin = "LED_G" THEN 2 ELSE 3] = 100
                ELSE /\ raised' = "ValueError"
                     /\ led_pwm' = led_pwm]_vars

\* set_led(0.0, 1.5, 0.0) was refused after set_led(1.0, 0.34, 0.0) had been applied:
\* red still fully on, green at 66 % duty, blue off
C21_Witness ==
    /\ lastOp.op = "set_led" /\ lastOp.arg = <<0, 150, 0>>
    /\ raised = "ValueError"
    /\ LedDuty["LED_R"].p = 0
    /\ LedDuty["LED_G"] = [p |-> 66, e |-> -1]
    /\ LedDuty["LED_B"].p = 100

====
